---- MODULE Spec2Model ----
(***************************************************************************)
(* Model of the recording/polling subsystem of icecast-ripper:             *)
(*   internal/recorder/recorder.go   (Recorder, single recording slot)     *)
(*   internal/scheduler/scheduler.go (Scheduler, poll loop)                *)
(* One unit of data is one copy-buffer of stream bytes.  A temp file holds  *)
(* the bytesWritten units of its task.  A file of the recordings directory *)
(* is the number of units it still misses of the recording it holds:       *)
(* 0 is a whole recording, more is a strict prefix.                        *)
(***************************************************************************)
EXTENDS Integers, Naturals, FiniteSets, Sequences, TLC

\* ---- bounds ----
MaxTasks == 2       \* recording tasks that may be launched in one run
MaxBytes == 2       \* units a download may write before the stream ends
MaxTime == 1        \* wall clock 0..MaxTime, in clock steps
MaxCancelCalls == 2 \* invocations of one recording's cancel function that are counted
MaxStopCalls == 2   \* calls of Scheduler.Stop in one run
MaxDays == 1        \* configured retention days -1..MaxDays
MaxLive == 1        \* probes of one run that find the stream live
MaxEntries == 2     \* entries of the recordings directory that predate the run
MaxLen == 3         \* characters of a name given to the sanitizer

TaskIds == 1..MaxTasks
Paths == 0..MaxTime      \* final path: <streamName>_<startTime second>.mp3
Nil == 0                     \* nil cancelFunc
NoFile == -1                 \* no directory entry at a path
Hour == 1                    \* 1*time.Hour, the sweep throttle, in clock steps
ZeroTime == 0 - Hour         \* the zero time.Time: an hour or more before every clock value
EntryNames == 1..MaxEntries  \* names of the older entries, in the order of os.ReadDir
Kinds == {"file", "dir", "other"} \* regular file, directory, any other type (symlink, pipe)
Exts == {".mp3", ".MP3", ".txt"}   \* the end of an entry's name
NoEntry == [kind |-> "none", ext |-> "none", modTime |-> 0]
NoEntries == [e \in EntryNames |-> NoEntry]
StatusOK == 200              \* http.StatusOK
Statuses == {StatusOK, 204, 404, 503}
NoAnswer == [kind |-> "none", status |-> 0]
Answers ==
  [kind : {"badRequest", "connErr"}, status : {0}]
    \cup [kind : {"response"}, status : Statuses]
NoCall == [pc |-> "idle", input |-> <<>>, arg |-> <<>>, cleaned |-> <<>>, output |-> <<>>]
RunCall == 0        \* the call of Stop made by the run loop itself
StopCallers == 1..MaxStopCalls
AltNew == [runPc |-> "new", stopChan |-> "open", once |-> "new", wg |-> 0,
           stops |-> [c \in {RunCall} \cup StopCallers |-> "idle"]]
IdleSweep == [pc |-> "idle", cutoff |-> 0, entries |-> NoEntries, todo |-> {},
              deleted |-> 0, warned |-> {}, err |-> FALSE]

VARIABLES
  isRecording,   \* Recorder.isRecording
  cancelFunc,    \* Recorder.cancelFunc: Nil or the task whose context it cancels
  tasks,         \* the recordStream goroutines: position and locals
  nextTask,      \* number of goroutines launched so far
  tempDir,       \* temp directory: the tasks whose recording-*.tmp exists
  recDir,        \* recordings directory: path -> NoFile or units missing
  now,           \* wall clock; timestamps taken in the same step are equal
  lifeCancelled, \* the caller's lifecycle context is cancelled
  schedPc,       \* Scheduler.run position
  schedCancelled,\* Scheduler.cancel has been invoked
  retentionDays, \* configuration: the retentionDays argument of scheduler.New
  oldDir,        \* recordings directory: the entries that were there before the run
  sweep,         \* the call of CleanOldRecordings in progress: position and locals
  probeAnswer,   \* what the IsLive call of the current tick met
  san,           \* a call of sanitizeFilename: argument and result
  alt,           \* the Scheduler of the stop-channel variant
  lastCleanup,   \* Scheduler.lastCleanup
  stopWaiting,   \* calls of Scheduler.Stop that are blocked in s.wg.Wait()
  stopReturned,  \* calls of Scheduler.Stop that have returned
  mainPc,        \* position of run() in main
  lastStart      \* result of the latest StartRecording call

vars == <<isRecording, cancelFunc, tasks, nextTask, tempDir, recDir, now,
          lifeCancelled, schedPc, schedCancelled, retentionDays, oldDir, sweep, probeAnswer, san, alt, lastCleanup, stopWaiting, stopReturned, mainPc, lastStart>>

NoTask == [pc |-> "none", parent |-> "none", cancelCalls |-> 0, startTime |-> 0,
           tempFilePath |-> FALSE, bytesWritten |-> 0, dlErr |-> "none",
           err |-> "nil", moveTried |-> FALSE, moveErr |-> FALSE, copied |-> 0]

InitRecorder ==
  /\ isRecording = FALSE
  /\ cancelFunc = Nil
  /\ tasks = [t \in TaskIds |-> NoTask]
  /\ nextTask = 0
  /\ tempDir = {}
  /\ recDir = [p \in Paths |-> NoFile]
  /\ now = 0
  /\ lifeCancelled = FALSE
  /\ schedPc = "new"
  /\ schedCancelled = FALSE
  /\ lastCleanup = ZeroTime
  /\ stopWaiting = 0
  /\ stopReturned = 0
  /\ mainPc = "init"
  /\ lastStart = "none"
  /\ sweep = IdleSweep
  /\ probeAnswer = NoAnswer
  /\ alt = AltNew

\* the Recorder alone: retention is not configured
Init == InitRecorder /\ retentionDays = 0 /\ oldDir = NoEntries /\ san = NoCall

\* the Scheduler with any retention setting
SchedInit ==
  InitRecorder /\ retentionDays \in -1..MaxDays /\ oldDir = NoEntries /\ san = NoCall

\* ---- contexts ----
\* ctx of Scheduler.run: context.WithCancel(lifecycle ctx)
SchedCtxDone == schedCancelled \/ lifeCancelled

ParentDone(parent) ==
  IF parent = "sched" THEN SchedCtxDone ELSE lifeCancelled

\* recordingCtx of task t: context.WithCancel(ctx given to StartRecording)
\* a recording context that is not derived from the caller's context
CtxDone_OwnOnly(t) == tasks[t].cancelCalls > 0

CtxDone(t) == tasks[t].cancelCalls > 0 \/ ParentDone(tasks[t].parent)

\* ---- Recorder ----
IsRecording == isRecording

\* StartRecording that does not look at the slot flag
StartRecording_NoGuard(parent) ==
  /\ nextTask < MaxTasks
  /\ nextTask' = nextTask + 1
  /\ cancelFunc' = nextTask + 1
  /\ isRecording' = TRUE
  /\ tasks' = [tasks EXCEPT ![nextTask + 1] =
                 [NoTask EXCEPT !.pc = "create", !.parent = parent]]
  /\ lastStart' = "ok"

\* a refused StartRecording that cancels the recording in progress
StartRecording_ErrorCancels(parent) ==
  IF isRecording
  THEN /\ lastStart' = "already"
       /\ tasks' = [tasks EXCEPT ![cancelFunc].cancelCalls = MaxCancelCalls]
       /\ UNCHANGED <<isRecording, cancelFunc, nextTask>>
  ELSE /\ nextTask < MaxTasks
       /\ nextTask' = nextTask + 1
       /\ cancelFunc' = nextTask + 1
       /\ isRecording' = TRUE
       /\ tasks' = [tasks EXCEPT ![nextTask + 1] =
                      [NoTask EXCEPT !.pc = "create", !.parent = parent]]
       /\ lastStart' = "ok"

\* StartRecording under r.mu; parent names the ctx argument
StartRecording(parent) ==
  IF isRecording
  THEN /\ lastStart' = "already"
       /\ UNCHANGED <<isRecording, cancelFunc, tasks, nextTask>>
  ELSE /\ nextTask < MaxTasks
       /\ nextTask' = nextTask + 1
       /\ cancelFunc' = nextTask + 1
       /\ isRecording' = TRUE
       /\ tasks' = [tasks EXCEPT ![nextTask + 1] =
                      [NoTask EXCEPT !.pc = "create", !.parent = parent]]
       /\ lastStart' = "ok"

\* a direct caller of the Recorder API, with the lifecycle context
ClientStartRecording ==
  /\ StartRecording("life")
  /\ UNCHANGED <<tempDir, recDir, now, lifeCancelled, schedPc, schedCancelled, retentionDays, oldDir, sweep, probeAnswer, san, alt, lastCleanup, stopWaiting, stopReturned, mainPc>>

\* a StopRecording that also marks the slot idle
StopRecording_ClearsSlot ==
  /\ IF isRecording /\ cancelFunc # Nil
     THEN /\ tasks[cancelFunc].cancelCalls < MaxCancelCalls
          /\ tasks' = [tasks EXCEPT ![cancelFunc].cancelCalls = @ + 1]
     ELSE UNCHANGED tasks
  /\ isRecording' = FALSE
  /\ cancelFunc' = Nil

\* a StopRecording that has to wait for r.mu while a download holds it
StopRecording_HeldByDownload ==
  /\ \A t \in TaskIds : tasks[t].pc \notin {"connect", "copy"}
  /\ IF isRecording /\ cancelFunc # Nil
     THEN /\ tasks[cancelFunc].cancelCalls < MaxCancelCalls
          /\ tasks' = [tasks EXCEPT ![cancelFunc].cancelCalls = @ + 1]
     ELSE UNCHANGED tasks
  /\ UNCHANGED <<isRecording, cancelFunc>>

\* StopRecording under r.mu: r.cancelFunc() when a recording is active
StopRecording ==
  /\ IF isRecording /\ cancelFunc # Nil
     THEN /\ tasks[cancelFunc].cancelCalls < MaxCancelCalls
          /\ tasks' = [tasks EXCEPT ![cancelFunc].cancelCalls = @ + 1]
     ELSE UNCHANGED tasks
  /\ UNCHANGED <<isRecording, cancelFunc>>

\* a direct caller of the Recorder API
ClientStopRecording ==
  /\ StopRecording
  /\ UNCHANGED <<nextTask, tempDir, recDir, now, lifeCancelled, schedPc, schedCancelled,
                 retentionDays, oldDir, sweep, probeAnswer, san, alt, lastCleanup, stopWaiting, stopReturned, mainPc, lastStart>>

\* ---- recordStream (the goroutine StartRecording launches) ----
FinalPath(t) == tasks[t].startTime

\* isNormalDisconnect: the ways a streaming source ends a transfer
isNormalDisconnect(dlErr) == dlErr = "disconnect"

\* a transfer cut by the peer is reported like any other copy error
DlReturn_DisconnectFails(dlErr) ==
  CASE dlErr = "canceled"   -> "canceled"
    [] dlErr = "other"      -> "other"
    [] dlErr = "disconnect" -> "other"
    [] OTHER                -> "nil"

\* what downloadStream returns for the way the transfer ended
DlReturn(dlErr) ==
  CASE dlErr = "canceled"       -> "canceled"
    [] isNormalDisconnect(dlErr) -> "nil"
    [] dlErr = "other"          -> "other"
    [] OTHER                    -> "nil"      \* io.Copy returned nil: clean end

\* tempFile.Close(): a close error replaces a nil download error only
AfterClose(err, closeOk) ==
  IF ~closeOk /\ err = "nil" THEN "closeErr" ELSE err

\* a cancelled download is handled like any other error
Classify_CancelFails(err, bytesWritten) ==
  IF err # "nil" THEN "fail"
  ELSE IF bytesWritten = 0 THEN "discard"
  ELSE "publish"

\* no check for an empty download
Classify_NoZeroCheck(err, bytesWritten) ==
  IF err # "nil" /\ err # "canceled" THEN "fail"
  ELSE "publish"

\* a failed download returns like an empty one, moveErr left nil
Classify_FailDiscards(err, bytesWritten) ==
  IF err # "nil" /\ err # "canceled" THEN "discard"
  ELSE IF bytesWritten = 0 THEN "discard"
  ELSE "publish"

\* what recordStream does with the closed temp file
Classify(err, bytesWritten) ==
  IF err # "nil" /\ err # "canceled" THEN "fail"
  ELSE IF bytesWritten = 0 THEN "discard"
  ELSE "publish"

\* every temp file is left alone
KeepTemp_Always(tempFilePath, moveErr) == TRUE

\* the temp file is removed whatever moveErr says
KeepTemp_Never(tempFilePath, moveErr) == ~tempFilePath

\* deferred cleanup: TRUE when the temp file is left alone
KeepTemp(tempFilePath, moveErr) ==
  IF ~tempFilePath THEN TRUE
  ELSE moveErr

TaskOther == <<now, lifeCancelled, schedPc, schedCancelled, retentionDays, oldDir, sweep, probeAnswer, san, alt, lastCleanup, stopWaiting, stopReturned, mainPc, lastStart, nextTask>>

\* a CreateTemp failure that returns without the deferred release
CreateTemp_NoDefer(t) ==
  /\ tasks[t].pc = "create"
  /\ \E ok \in BOOLEAN :
       IF ok
       THEN /\ tasks' = [tasks EXCEPT ![t].pc = "connect", ![t].startTime = now,
                                      ![t].tempFilePath = TRUE]
            /\ tempDir' = tempDir \cup {t}
       ELSE /\ tasks' = [tasks EXCEPT ![t] = [NoTask EXCEPT !.pc = "done"]]
            /\ UNCHANGED tempDir
  /\ UNCHANGED <<isRecording, cancelFunc, recDir>>
  /\ UNCHANGED TaskOther

\* startTime := time.Now(); os.CreateTemp
CreateTemp(t) ==
  /\ tasks[t].pc = "create"
  /\ \E ok \in BOOLEAN :
       IF ok
       THEN /\ tasks' = [tasks EXCEPT ![t].pc = "connect", ![t].startTime = now,
                                      ![t].tempFilePath = TRUE]
            /\ tempDir' = tempDir \cup {t}
       ELSE /\ tasks' = [tasks EXCEPT ![t].pc = "release", ![t].startTime = now]
            /\ UNCHANGED tempDir
  /\ UNCHANGED <<isRecording, cancelFunc, recDir>>
  /\ UNCHANGED TaskOther

ConnectOutcomes(t) ==
  IF CtxDone(t) THEN {"reqErr", "canceled"}
  ELSE {"ok", "reqErr", "connErr", "status"}

\* downloadStream up to the status check
Connect(t) ==
  /\ tasks[t].pc = "connect"
  /\ \E r \in ConnectOutcomes(t) :
       tasks' = [tasks EXCEPT
                   ![t].pc = IF r = "ok" THEN "copy" ELSE "close",
                   ![t].dlErr = CASE r = "ok" -> "none"
                                  [] r = "canceled" -> "canceled"
                                  [] OTHER -> "other"]
  /\ UNCHANGED <<isRecording, cancelFunc, tempDir, recDir>>
  /\ UNCHANGED TaskOther

CopyEnds(t) ==
  {"eof", "disconnect", "other"} \cup (IF CtxDone(t) THEN {"canceled"} ELSE {})

\* io.Copy(writer, resp.Body): one buffer per step, or the end of the transfer
CopyStream(t) ==
  /\ tasks[t].pc = "copy"
  /\ \/ /\ tasks[t].bytesWritten < MaxBytes
        /\ tasks' = [tasks EXCEPT ![t].bytesWritten = @ + 1]
     \/ /\ \E r \in CopyEnds(t) :
             tasks' = [tasks EXCEPT ![t].pc = "close", ![t].dlErr = r]
  /\ UNCHANGED <<isRecording, cancelFunc, tempDir, recDir>>
  /\ UNCHANGED TaskOther

\* a close that gives the slot back before the file is published
CloseTemp_ReleasesFirst(t) ==
  /\ tasks[t].pc = "close"
  /\ \E closeOk \in BOOLEAN :
       LET err == AfterClose(DlReturn(tasks[t].dlErr), closeOk)
           c   == Classify(err, tasks[t].bytesWritten)
       IN tasks' = [tasks EXCEPT
                      ![t].err = err,
                      ![t].moveErr = (c = "fail"),
                      ![t].pc = IF c = "publish" THEN "rename" ELSE "release"]
  /\ isRecording' = FALSE
  /\ cancelFunc' = Nil
  /\ UNCHANGED <<tempDir, recDir>>
  /\ UNCHANGED TaskOther

\* tempFile.Close() and the branches that follow it
CloseTemp(t) ==
  /\ tasks[t].pc = "close"
  /\ \E closeOk \in BOOLEAN :
       LET err == AfterClose(DlReturn(tasks[t].dlErr), closeOk)
           c   == Classify(err, tasks[t].bytesWritten)
       IN tasks' = [tasks EXCEPT
                      ![t].err = err,
                      ![t].moveErr = (c = "fail"),
                      ![t].pc = IF c = "publish" THEN "rename" ELSE "release"]
  /\ UNCHANGED <<isRecording, cancelFunc, tempDir, recDir>>
  /\ UNCHANGED TaskOther

\* moveToFinalLocation: os.Rename
Rename(t) ==
  /\ tasks[t].pc = "rename"
  /\ \E ok \in BOOLEAN :
       IF ok
       THEN /\ recDir' = [recDir EXCEPT ![FinalPath(t)] = 0]
            /\ tempDir' = tempDir \ {t}
            /\ tasks' = [tasks EXCEPT ![t].pc = "release", ![t].moveTried = TRUE]
       ELSE /\ tasks' = [tasks EXCEPT ![t].pc = "copyOpen", ![t].moveTried = TRUE]
            /\ UNCHANGED <<tempDir, recDir>>
  /\ UNCHANGED <<isRecording, cancelFunc>>
  /\ UNCHANGED TaskOther

\* copyFile: os.Open(src), os.Create(dst)
CopyOpen(t) ==
  /\ tasks[t].pc = "copyOpen"
  /\ \E r \in {"ok", "openErr", "createErr"} :
       IF r = "ok"
       THEN /\ recDir' = [recDir EXCEPT ![FinalPath(t)] = tasks[t].bytesWritten]
            /\ tasks' = [tasks EXCEPT ![t].pc = "copyData", ![t].copied = 0]
       ELSE /\ tasks' = [tasks EXCEPT ![t].pc = "release", ![t].moveErr = TRUE]
            /\ UNCHANGED recDir
  /\ UNCHANGED <<isRecording, cancelFunc, tempDir>>
  /\ UNCHANGED TaskOther

\* copyFile: io.Copy(destFile, sourceFile) and destFile.Close()
CopyData(t) ==
  /\ tasks[t].pc = "copyData"
  /\ \/ /\ tasks[t].copied < tasks[t].bytesWritten
        /\ recDir' = [recDir EXCEPT ![FinalPath(t)] = @ - 1]
        /\ tasks' = [tasks EXCEPT ![t].copied = @ + 1]
     \/ /\ tasks[t].copied < tasks[t].bytesWritten   \* read or write error part-way
        /\ tasks' = [tasks EXCEPT ![t].pc = "release", ![t].moveErr = TRUE, ![t].copied = 0]
        /\ UNCHANGED recDir
     \/ /\ tasks[t].copied = tasks[t].bytesWritten
        /\ \E closeOk \in BOOLEAN :
             tasks' = [tasks EXCEPT ![t].pc = "release", ![t].moveErr = ~closeOk, ![t].copied = 0]
        /\ UNCHANGED recDir
  /\ UNCHANGED <<isRecording, cancelFunc, tempDir>>
  /\ UNCHANGED TaskOther

\* the deferred function reads only tempFilePath and moveErr
DeferredLocals(t) ==
  [NoTask EXCEPT !.pc = "cleanup",
                 !.tempFilePath = tasks[t].tempFilePath,
                 !.moveErr = tasks[t].moveErr]

\* a release that clears the flag and leaves the handle
Release_KeepsCancel(t) ==
  /\ tasks[t].pc = "release"
  /\ isRecording' = FALSE
  /\ UNCHANGED cancelFunc
  /\ tasks' = [tasks EXCEPT ![t] = DeferredLocals(t)]
  /\ UNCHANGED <<tempDir, recDir>>
  /\ UNCHANGED TaskOther

\* deferred: release the slot under r.mu
Release(t) ==
  /\ tasks[t].pc = "release"
  /\ isRecording' = FALSE
  /\ cancelFunc' = Nil
  /\ tasks' = [tasks EXCEPT ![t] = DeferredLocals(t)]
  /\ UNCHANGED <<tempDir, recDir>>
  /\ UNCHANGED TaskOther

\* deferred: keep or remove the temp file
Cleanup(t) ==
  /\ tasks[t].pc = "cleanup"
  /\ tasks' = [tasks EXCEPT ![t] = [NoTask EXCEPT !.pc = "done"]]   \* the goroutine returns, its locals are gone
  /\ IF KeepTemp(tasks[t].tempFilePath, tasks[t].moveErr)
     THEN UNCHANGED tempDir
     ELSE tempDir' = tempDir \ {t}      \* os.Remove; a missing file is not an error
  /\ UNCHANGED <<isRecording, cancelFunc, recDir>>
  /\ UNCHANGED TaskOther

RecordStream(t) ==
  \/ CreateTemp(t)
  \/ Connect(t)
  \/ CopyStream(t)
  \/ CloseTemp(t)
  \/ Rename(t)
  \/ CopyOpen(t)
  \/ CopyData(t)
  \/ Release(t)
  \/ Cleanup(t)

\* ---- environment ----
ClockTick ==
  /\ now < MaxTime
  /\ now' = now + 1
  /\ UNCHANGED <<isRecording, cancelFunc, tasks, nextTask, tempDir, recDir,
                 lifeCancelled, schedPc, schedCancelled, retentionDays, oldDir, sweep, probeAnswer, san, alt, lastCleanup, stopWaiting, stopReturned, mainPc, lastStart>>

\* the shutdown signal cancels the lifecycle context
CancelLifecycle ==
  /\ ~lifeCancelled
  /\ lifeCancelled' = TRUE
  /\ UNCHANGED <<isRecording, cancelFunc, tasks, nextTask, tempDir, recDir,
                 now, schedPc, schedCancelled, retentionDays, oldDir, sweep, probeAnswer, san, alt, lastCleanup, stopWaiting, stopReturned, mainPc, lastStart>>

\* ---- sanitizeFilename ----
\* the characters the replacer knows, the other characters of the cutset, an
\* apostrophe and a letter that stands for every other character
Unsafe == {" ", "/", "\\", ":", "*", "?", "\"", "<", ">", "|"}
Cutset == {"_", "-", ".", " "}
Chars == Unsafe \cup Cutset \cup {"'", "a"}
Strings == UNION {[1..n -> Chars] : n \in 0..MaxLen}

\* a replacer that turns every character it knows into a hyphen
Replace_AllHyphen(c) == IF c \in Unsafe THEN "-" ELSE c

\* filenameSanitizer: the pairs given to strings.NewReplacer
Replace(c) ==
  CASE c = " " -> "_"
    [] c = "/" -> "-"
    [] c = "\\" -> "-"
    [] c = ":" -> "-"
    [] c = "*" -> "-"
    [] c = "?" -> "-"
    [] c = "\"" -> "'"
    [] c = "<" -> "-"
    [] c = ">" -> "-"
    [] c = "|" -> "-"
    [] OTHER -> c

\* filenameSanitizer.Replace: character by character
ReplaceAll(str) == [i \in 1..Len(str) |-> Replace(str[i])]

RECURSIVE TrimLeft(_, _)
TrimLeft(str, cutset) ==
  IF str # <<>> /\ Head(str) \in cutset THEN TrimLeft(Tail(str), cutset) ELSE str

RECURSIVE TrimRight(_, _)
TrimRight(str, cutset) ==
  IF str # <<>> /\ str[Len(str)] \in cutset
  THEN TrimRight(SubSeq(str, 1, Len(str) - 1), cutset)
  ELSE str

\* strings.Trim
Trim(str, cutset) == TrimRight(TrimLeft(str, cutset), cutset)

\* a sanitizer that trims before it replaces
sanitizeFilename_TrimFirst(filename) == ReplaceAll(Trim(filename, Cutset))

sanitizeFilename(filename) == Trim(ReplaceAll(filename), Cutset)

\* fmt.Sprintf("%s_%s.mp3", r.streamName, startTime.Format("20060102_150405"))
FormatName(streamName) == streamName \o <<"_", "a", "_", "a", ".", "a">>

SanOther == <<isRecording, cancelFunc, tasks, nextTask, tempDir, recDir, now,
              lifeCancelled, schedPc, schedCancelled, retentionDays, oldDir, sweep,
              probeAnswer, alt, lastCleanup, stopWaiting, stopReturned, mainPc, lastStart>>

\* a direct call of sanitizeFilename
SanitizeFilename ==
  /\ san.pc = "idle"
  /\ san' = [san EXCEPT !.pc = "done", !.arg = san.input,
                        !.cleaned = ReplaceAll(san.input),
                        !.output = sanitizeFilename(san.input)]
  /\ UNCHANGED SanOther

\* generateFinalPath with san.input as the stream name
GenerateFinalPath ==
  /\ san.pc = "idle"
  /\ san' = [san EXCEPT !.pc = "path", !.arg = FormatName(san.input),
                        !.cleaned = ReplaceAll(FormatName(san.input)),
                        !.output = sanitizeFilename(FormatName(san.input))]
  /\ UNCHANGED SanOther

\* ---- Recorder.CleanOldRecordings ----
\* strings.ToLower on the end of a name
ToLower(ext) == IF ext = ".MP3" THEN ".mp3" ELSE ext

\* the loop passes over an entry without looking at its age
Skipped(entry) == entry.kind = "dir" \/ ToLower(entry.ext) # ".mp3"

\* an age test that also takes a file modified exactly at the cutoff
Before_OrEqual(modTime, cutoff) == modTime <= cutoff

\* info.ModTime().Before(cutoff)
Before(modTime, cutoff) == modTime < cutoff

\* a sweep that notes the error of os.ReadDir and goes on with the loop
ReadDir_IgnoresError(maxAge) ==
  /\ sweep.pc = "idle"
  /\ \E ok \in BOOLEAN :
       sweep' = [IdleSweep EXCEPT !.pc = "loop", !.cutoff = now - maxAge,
                                  !.entries = oldDir, !.err = ~ok,
                                  !.todo = {e \in EntryNames : oldDir[e] # NoEntry}]
  /\ UNCHANGED oldDir

\* os.ReadDir(r.recordingsPath); on an error return 0 and the error, else
\* cutoff := time.Now().Add(-maxAge) and the loop begins
ReadDir(maxAge) ==
  /\ sweep.pc = "idle"
  /\ \E ok \in BOOLEAN :
       sweep' = IF ok
                THEN [IdleSweep EXCEPT !.pc = "loop", !.cutoff = now - maxAge,
                                       !.entries = oldDir,
                                       !.todo = {e \in EntryNames : oldDir[e] # NoEntry}]
                ELSE [IdleSweep EXCEPT !.pc = "returned", !.err = TRUE]
  /\ UNCHANGED oldDir

\* a loop over the entries that returns the first stat or removal failure
SweepEntry_AbortsOnFailure ==
  /\ sweep.pc = "loop"
  /\ sweep.todo # {}
  /\ LET e == CHOOSE x \in sweep.todo : \A y \in sweep.todo : x <= y
         entry == sweep.entries[e]
         next == [sweep EXCEPT !.todo = @ \ {e}]
         abort == [next EXCEPT !.warned = @ \cup {e}, !.pc = "returned", !.err = TRUE]
     IN IF Skipped(entry)
        THEN sweep' = next /\ UNCHANGED oldDir
        ELSE \E r \in {"ok", "infoErr", "removeErr"} :
               IF r = "infoErr" \/ oldDir[e] = NoEntry
               THEN sweep' = abort /\ UNCHANGED oldDir
               ELSE IF ~Before(oldDir[e].modTime, sweep.cutoff)
               THEN sweep' = next /\ UNCHANGED oldDir
               ELSE IF r = "removeErr"
               THEN sweep' = abort /\ UNCHANGED oldDir
               ELSE /\ oldDir' = [oldDir EXCEPT ![e] = NoEntry]
                    /\ sweep' = [next EXCEPT !.deleted = @ + 1]

\* one iteration of the loop over the entries: entry.Info() or os.Remove may
\* fail, the failure is logged and the loop goes on
SweepEntry ==
  /\ sweep.pc = "loop"
  /\ sweep.todo # {}
  /\ LET e == CHOOSE x \in sweep.todo : \A y \in sweep.todo : x <= y
         entry == sweep.entries[e]
         next == [sweep EXCEPT !.todo = @ \ {e}]
     IN IF Skipped(entry)
        THEN sweep' = next /\ UNCHANGED oldDir
        ELSE \E r \in {"ok", "infoErr", "removeErr"} :
               IF r = "infoErr" \/ oldDir[e] = NoEntry
               THEN sweep' = [next EXCEPT !.warned = @ \cup {e}] /\ UNCHANGED oldDir
               ELSE IF ~Before(oldDir[e].modTime, sweep.cutoff)
               THEN sweep' = next /\ UNCHANGED oldDir
               ELSE IF r = "removeErr"
               THEN sweep' = [next EXCEPT !.warned = @ \cup {e}] /\ UNCHANGED oldDir
               ELSE /\ oldDir' = [oldDir EXCEPT ![e] = NoEntry]
                    /\ sweep' = [next EXCEPT !.deleted = @ + 1]

\* return deleted, nil
SweepReturn ==
  /\ sweep.pc = "loop"
  /\ sweep.todo = {}
  /\ sweep' = [sweep EXCEPT !.pc = "returned"]
  /\ UNCHANGED oldDir

\* ---- Scheduler ----
SweepOther == <<tempDir, recDir, now, lifeCancelled, schedCancelled, retentionDays,
                probeAnswer, san, alt, stopWaiting, stopReturned, mainPc>>

SchedOther == <<tempDir, recDir, now, lifeCancelled, schedCancelled, retentionDays, oldDir, sweep, probeAnswer, san, alt,
                stopWaiting, stopReturned, mainPc>>

\* New: retentionMaxAge in clock steps
RetentionMaxAge(days) == IF days > 0 THEN days * 24 * Hour ELSE 0

\* a loop that waits for the first interval before its first checks
Start_WaitsFirst ==
  /\ schedPc = "new"
  /\ schedPc' = "wait"
  /\ UNCHANGED <<schedCancelled, lastCleanup>>

\* Start: derive the loop context, s.wg.Add(1), launch run
Start ==
  /\ schedPc = "new"
  /\ schedPc' = "cleanup"
  /\ UNCHANGED <<schedCancelled, lastCleanup>>

SchedulerStart ==
  /\ Start
  /\ UNCHANGED <<isRecording, cancelFunc, tasks, nextTask, lastStart>>
  /\ UNCHANGED <<tempDir, recDir, now, lifeCancelled, retentionDays, oldDir, sweep, probeAnswer, san, alt,
                 stopWaiting, stopReturned, mainPc>>

\* the early return that looks at the throttle only
SkipCleanup_IgnoresDisabled(retentionMaxAge, sinceLast) == sinceLast < Hour

\* the early return that looks at the retention setting only
SkipCleanup_NoThrottle(retentionMaxAge, sinceLast) == retentionMaxAge <= 0

\* cleanupIfNeeded: the early return
SkipCleanup(retentionMaxAge, sinceLast) ==
  retentionMaxAge <= 0 \/ sinceLast < Hour

\* cleanupIfNeeded up to the call of CleanOldRecordings
SchedCleanupIfNeeded ==
  /\ schedPc = "cleanup"
  /\ IF SkipCleanup(RetentionMaxAge(retentionDays), now - lastCleanup)
     THEN /\ schedPc' = "isrec"
          /\ UNCHANGED lastCleanup
     ELSE /\ lastCleanup' = now
          /\ schedPc' = "sweep"
  /\ UNCHANGED <<isRecording, cancelFunc, tasks, nextTask, lastStart>>
  /\ UNCHANGED SchedOther

\* cleanupIfNeeded: a step of s.recorder.CleanOldRecordings(s.retentionMaxAge).
\* Every file of recDir was written during the run, less than a day before
\* any clock value, so the sweep passes over it like over any newer file.
SchedSweep ==
  /\ schedPc = "sweep"
  /\ \/ ReadDir(RetentionMaxAge(retentionDays))
     \/ SweepEntry
     \/ SweepReturn
  /\ UNCHANGED <<isRecording, cancelFunc, tasks, nextTask, lastStart, lastCleanup, schedPc>>
  /\ UNCHANGED SweepOther

\* a loop that forgets the time of a sweep that failed, to retry on the next tick
SchedSweepReturn_RetryOnError ==
  /\ schedPc = "sweep"
  /\ sweep.pc = "returned"
  /\ schedPc' = IF sweep.err THEN "sweepErr" ELSE "isrec"
  /\ lastCleanup' = IF sweep.err THEN ZeroTime ELSE lastCleanup
  /\ sweep' = IdleSweep
  /\ UNCHANGED <<isRecording, cancelFunc, tasks, nextTask, lastStart, oldDir>>
  /\ UNCHANGED SweepOther

\* cleanupIfNeeded: CleanOldRecordings has returned; an error goes to the log
SchedSweepReturn ==
  /\ schedPc = "sweep"
  /\ sweep.pc = "returned"
  /\ schedPc' = IF sweep.err THEN "sweepErr" ELSE "isrec"
  /\ sweep' = IdleSweep
  /\ UNCHANGED <<isRecording, cancelFunc, tasks, nextTask, lastStart, lastCleanup, oldDir>>
  /\ UNCHANGED SweepOther

\* cleanupIfNeeded: log the error of the sweep and return
SchedSweepFailed ==
  /\ schedPc = "sweepErr"
  /\ schedPc' = "isrec"
  /\ UNCHANGED <<isRecording, cancelFunc, tasks, nextTask, lastStart, lastCleanup>>
  /\ UNCHANGED SchedOther

\* a check that probes whether or not a recording is active
SchedIsRecording_NoSkip ==
  /\ schedPc = "isrec"
  /\ schedPc' = "probe"
  /\ UNCHANGED <<isRecording, cancelFunc, tasks, nextTask, lastStart, lastCleanup>>
  /\ UNCHANGED SchedOther

\* checkAndRecord: s.recorder.IsRecording()
SchedIsRecording ==
  /\ schedPc = "isrec"
  /\ schedPc' = IF IsRecording THEN "wait" ELSE "probe"
  /\ UNCHANGED <<isRecording, cancelFunc, tasks, nextTask, lastStart, lastCleanup>>
  /\ UNCHANGED SchedOther

\* a probe that takes every 2xx answer for a live stream
IsLive_Any2xx(answer) ==
  IF answer.kind = "badRequest" THEN [isLive |-> FALSE, err |-> TRUE]
  ELSE IF answer.kind = "connErr" THEN [isLive |-> FALSE, err |-> FALSE]
  ELSE [isLive |-> (answer.status >= StatusOK /\ answer.status < 300), err |-> FALSE]

\* Checker.IsLive: the result for each thing the request can meet
IsLive(answer) ==
  IF answer.kind = "badRequest" THEN [isLive |-> FALSE, err |-> TRUE]
  ELSE IF answer.kind = "connErr" THEN [isLive |-> FALSE, err |-> FALSE]
  ELSE IF answer.status = StatusOK THEN [isLive |-> TRUE, err |-> FALSE]
  ELSE [isLive |-> FALSE, err |-> FALSE]

\* what a probe can meet when at most cap probes of a run find the stream
\* live: under a cancelled context client.Do fails; every live probe is
\* followed by the launch of a task, so nextTask counts the live probes so far
ProbeOutcomesUpTo(cap) ==
  IF SchedCtxDone
  THEN {a \in Answers : a.kind # "response"}
  ELSE IF nextTask >= cap \/ nextTask >= MaxTasks
  THEN {a \in Answers : a.status # StatusOK}
  ELSE Answers

ProbeOutcomes == ProbeOutcomesUpTo(MaxLive)

ProbeOther == <<tempDir, recDir, now, lifeCancelled, schedCancelled, retentionDays,
                oldDir, sweep, san, alt, stopWaiting, stopReturned, mainPc>>

\* checkAndRecord: s.checker.IsLive(ctx)
SchedProbe ==
  /\ schedPc = "probe"
  /\ \E a \in ProbeOutcomes :
       /\ probeAnswer' = a
       /\ schedPc' = IF IsLive(a).err THEN "probeErr"
                     ELSE IF IsLive(a).isLive THEN "start" ELSE "notlive"
  /\ UNCHANGED <<isRecording, cancelFunc, tasks, nextTask, lastStart, lastCleanup>>
  /\ UNCHANGED ProbeOther

\* checkAndRecord: s.checker.IsLive(ctx), in a run in which the stream comes
\* back after each recording
SchedProbeAgain ==
  /\ schedPc = "probe"
  /\ \E a \in ProbeOutcomesUpTo(MaxTasks) :
       /\ probeAnswer' = a
       /\ schedPc' = IF IsLive(a).err THEN "probeErr"
                     ELSE IF IsLive(a).isLive THEN "start" ELSE "notlive"
  /\ UNCHANGED <<isRecording, cancelFunc, tasks, nextTask, lastStart, lastCleanup>>
  /\ UNCHANGED ProbeOther

\* a loop that ends when a probe or a start fails
SchedNothingToRecord_ErrorStopsLoop ==
  /\ schedPc \in {"notlive", "probeErr", "startErr"}
  /\ schedPc' = IF schedPc = "notlive" THEN "wait" ELSE "exited"
  /\ probeAnswer' = NoAnswer
  /\ UNCHANGED <<isRecording, cancelFunc, tasks, nextTask, lastStart, lastCleanup>>
  /\ UNCHANGED ProbeOther

\* checkAndRecord: the probe failed, found the stream offline, or the start
\* was refused; log and return
SchedNothingToRecord ==
  /\ schedPc \in {"notlive", "probeErr", "startErr"}
  /\ schedPc' = "wait"
  /\ probeAnswer' = NoAnswer
  /\ UNCHANGED <<isRecording, cancelFunc, tasks, nextTask, lastStart, lastCleanup>>
  /\ UNCHANGED ProbeOther

\* a tick that calls StartRecording until it is refused
SchedStartRecording_Retry ==
  /\ schedPc = "start"
  /\ StartRecording("sched")
  /\ schedPc' = IF lastStart' = "already" THEN "wait" ELSE "start"
  /\ probeAnswer' = NoAnswer
  /\ UNCHANGED lastCleanup
  /\ UNCHANGED ProbeOther

\* checkAndRecord: s.recorder.StartRecording(ctx, url) with the loop context
SchedStartRecording ==
  /\ schedPc = "start"
  /\ StartRecording("sched")
  /\ schedPc' = IF lastStart' = "already" THEN "startErr" ELSE "wait"
  /\ probeAnswer' = NoAnswer
  /\ UNCHANGED lastCleanup
  /\ UNCHANGED ProbeOther

\* a loop whose ticks are served only while no recording is active
SchedTick_WaitsForRecording ==
  /\ schedPc = "wait"
  /\ ~isRecording
  /\ schedPc' = "cleanup"
  /\ UNCHANGED <<isRecording, cancelFunc, tasks, nextTask, lastStart, lastCleanup>>
  /\ UNCHANGED SchedOther

\* run: select on ticker.C
SchedTick ==
  /\ schedPc = "wait"
  /\ schedPc' = "cleanup"
  /\ UNCHANGED <<isRecording, cancelFunc, tasks, nextTask, lastStart, lastCleanup>>
  /\ UNCHANGED SchedOther

\* a loop that leaves only when the lifecycle context is cancelled
SchedExit_LifecycleOnly ==
  /\ schedPc = "wait"
  /\ lifeCancelled
  /\ schedPc' = "exited"
  /\ UNCHANGED <<isRecording, cancelFunc, tasks, nextTask, lastStart, lastCleanup>>
  /\ UNCHANGED SchedOther

\* run: select on ctx.Done(), then the deferred s.wg.Done()
SchedExit ==
  /\ schedPc = "wait"
  /\ SchedCtxDone
  /\ schedPc' = "exited"
  /\ UNCHANGED <<isRecording, cancelFunc, tasks, nextTask, lastStart, lastCleanup>>
  /\ UNCHANGED SchedOther

\* Stop: s.cancel()
StopCancel == schedCancelled' = TRUE

\* a wait that does not wait for the loop
WaitDone_NoWait == TRUE

\* a wait that is released for one caller only
WaitDone_Once == schedPc = "exited" /\ stopReturned = 0

\* Stop: s.wg.Wait() returns once run has called s.wg.Done()
WaitDone == schedPc = "exited"

\* a caller enters Stop
SchedulerStop ==
  /\ schedPc # "new"
  /\ stopWaiting + stopReturned < MaxStopCalls
  /\ StopCancel
  /\ stopWaiting' = stopWaiting + 1
  /\ UNCHANGED <<isRecording, cancelFunc, tasks, nextTask, tempDir, recDir, now,
                 lifeCancelled, schedPc, retentionDays, oldDir, sweep, probeAnswer, san, alt, lastCleanup, stopReturned,
                 mainPc, lastStart>>

\* a caller leaves Stop
SchedulerStopReturn ==
  /\ stopWaiting > 0
  /\ WaitDone
  /\ stopWaiting' = stopWaiting - 1
  /\ stopReturned' = stopReturned + 1
  /\ UNCHANGED <<isRecording, cancelFunc, tasks, nextTask, tempDir, recDir, now,
                 lifeCancelled, schedPc, schedCancelled, retentionDays, oldDir, sweep, probeAnswer, san, alt, lastCleanup,
                 mainPc, lastStart>>

\* ---- main: run() ----
MainOther == <<isRecording, cancelFunc, nextTask, lastStart, tempDir, recDir, now,
               retentionDays, oldDir, sweep, probeAnswer, san, alt, stopWaiting, stopReturned>>

\* the end of the process ends every goroutine where it stands
Killed(task) ==
  IF task.pc \in {"none", "done"} THEN task ELSE [NoTask EXCEPT !.pc = "killed"]

ProcessExit ==
  /\ tasks' = [t \in TaskIds |-> Killed(tasks[t])]
  /\ schedPc' = IF schedPc \in {"new", "exited"} THEN schedPc ELSE "killed"

\* schedulerInstance.Start(ctx)
MainStart ==
  /\ mainPc = "init"
  /\ Start
  /\ mainPc' = "httpStart"
  /\ UNCHANGED <<tasks, lifeCancelled>>
  /\ UNCHANGED MainOther

\* httpServer.Start(); on failure stop() and run() returns the error
MainHttpStart ==
  /\ mainPc = "httpStart"
  /\ \E ok \in BOOLEAN :
       IF ok
       THEN /\ mainPc' = "serving"
            /\ UNCHANGED <<tasks, schedPc, lifeCancelled>>
       ELSE /\ mainPc' = "failed"
            /\ lifeCancelled' = TRUE
            /\ ProcessExit
  /\ UNCHANGED <<schedCancelled, lastCleanup>>
  /\ UNCHANGED MainOther

\* <-ctx.Done(); schedulerInstance.Stop() up to s.wg.Wait()
MainStop ==
  /\ mainPc = "serving"
  /\ lifeCancelled
  /\ StopCancel
  /\ mainPc' = "stopWait"
  /\ UNCHANGED <<tasks, lifeCancelled, schedPc, lastCleanup>>
  /\ UNCHANGED MainOther

\* schedulerInstance.Stop() returns
MainStopReturn ==
  /\ mainPc = "stopWait"
  /\ WaitDone
  /\ mainPc' = "stopRec"
  /\ UNCHANGED <<tasks, lifeCancelled, schedPc, schedCancelled, lastCleanup>>
  /\ UNCHANGED MainOther

\* recorderInstance.StopRecording()
MainStopRecording ==
  /\ mainPc = "stopRec"
  /\ StopRecording
  /\ mainPc' = "httpStop"
  /\ UNCHANGED <<nextTask, lastStart, tempDir, recDir, now, retentionDays, oldDir, sweep, probeAnswer, san, alt,
                 stopWaiting, stopReturned>>
  /\ UNCHANGED <<lifeCancelled, schedPc, schedCancelled, lastCleanup>>

\* httpServer.Stop(shutdownCtx) returns, at once when no request is being
\* served and after 30 seconds at the latest; run() returns, the process ends
MainExit ==
  /\ mainPc = "httpStop"
  /\ mainPc' = "exited"
  /\ ProcessExit
  /\ UNCHANGED <<lifeCancelled, schedCancelled, lastCleanup>>
  /\ UNCHANGED MainOther

\* the Recorder under arbitrary callers of its API
Next ==
  \/ ClientStartRecording
  \/ ClientStopRecording
  \/ \E t \in TaskIds : RecordStream(t)
  \/ ClockTick
  \/ CancelLifecycle

Spec == Init /\ [][Next]_vars

\* the program: the Scheduler is the caller of StartRecording
SchedNext ==
  \/ ClientStopRecording
  \/ \E t \in TaskIds : RecordStream(t)
  \/ ClockTick
  \/ CancelLifecycle
  \/ SchedulerStart
  \/ SchedCleanupIfNeeded
  \/ SchedSweep
  \/ SchedSweepReturn
  \/ SchedSweepFailed
  \/ SchedIsRecording
  \/ SchedProbe
  \/ SchedNothingToRecord
  \/ SchedStartRecording
  \/ SchedTick
  \/ SchedExit
  \/ SchedulerStop
  \/ SchedulerStopReturn

SchedSpec == SchedInit /\ [][SchedNext]_vars

\* the steps of Scheduler.run but the probe
LoopSteps ==
  \/ SchedCleanupIfNeeded
  \/ SchedSweep
  \/ SchedSweepReturn
  \/ SchedSweepFailed
  \/ SchedIsRecording
  \/ SchedNothingToRecord
  \/ SchedStartRecording
  \/ SchedTick
  \/ SchedExit

\* the steps of Scheduler.run
Loop ==
  \/ LoopSteps
  \/ SchedProbe

\* a started Scheduler with retention on, stopped by any number of callers
StopInit ==
  InitRecorder /\ retentionDays = MaxDays /\ oldDir = NoEntries /\ san = NoCall

StopNext ==
  \/ SchedulerStart
  \/ Loop
  \/ \E t \in TaskIds : RecordStream(t)
  \/ ClockTick
  \/ CancelLifecycle
  \/ SchedulerStop
  \/ SchedulerStopReturn

StopSpec == StopInit /\ [][StopNext]_vars

\* the same with wall-clock time left out.  Every step of the loop returns
\* (the probe returns once its context is cancelled); the select of run takes
\* the ctx.Done() case sooner or later once it is ready, because Go chooses
\* among ready cases at random and the ticker is not ready all the time.
StopFairNext ==
  \/ SchedulerStart
  \/ Loop
  \/ \E t \in TaskIds : RecordStream(t)
  \/ CancelLifecycle
  \/ SchedulerStop
  \/ SchedulerStopReturn

StopFairSpec ==
  /\ StopInit
  /\ [][StopFairNext]_vars
  /\ WF_vars(Loop)
  /\ SF_vars(SchedExit)
  /\ WF_vars(SchedulerStopReturn)

\* the poll loop and its recordings with wall-clock time left out: every step
\* of the loop returns, the goroutine scheduler runs every recording goroutine
\* that can take a step, and every stream ends
LoopFairNext ==
  \/ SchedulerStart
  \/ Loop
  \/ \E t \in TaskIds : RecordStream(t)
  \/ CancelLifecycle

LoopFairSpec ==
  /\ StopInit
  /\ [][LoopFairNext]_vars
  /\ WF_vars(Loop)
  /\ \A t \in TaskIds : WF_vars(RecordStream(t))

\* the poll loop next to another caller of StartRecording
RaceNext ==
  \/ SchedulerStart
  \/ Loop
  \/ ClientStartRecording
  \/ \E t \in TaskIds : RecordStream(t)
  \/ CancelLifecycle

RaceSpec == StopInit /\ [][RaceNext]_vars

\* the poll loop under every retention setting, ended by the lifecycle context
RetentionNext ==
  \/ SchedulerStart
  \/ Loop
  \/ \E t \in TaskIds : RecordStream(t)
  \/ ClockTick
  \/ CancelLifecycle

RetentionSpec == SchedInit /\ [][RetentionNext]_vars

\* the loop as the only caller of StartRecording, polling a stream that
\* comes back after a recording has ended, with wall-clock time left out
SoleCallerNext ==
  \/ SchedulerStart
  \/ LoopSteps
  \/ SchedProbeAgain
  \/ \E t \in TaskIds : RecordStream(t)
  \/ CancelLifecycle

SoleCallerSpec == StopInit /\ [][SoleCallerNext]_vars

\* the poll loop with retention on, next to recordings that may never end:
\* the ticker fires again and again and every step of the loop returns, while
\* nothing is assumed about the progress of a recording
PollFairSpec ==
  /\ StopInit
  /\ [][RetentionNext]_vars
  /\ WF_vars(Loop)

\* the retention sweep over a directory that holds older entries of every
\* kind, with modification times around the cutoff of the first sweep
Entries(maxAge) ==
  [kind : Kinds, ext : Exts, modTime : (0 - maxAge - 1)..(0 - maxAge + 1)]

SweepInit ==
  /\ InitRecorder
  /\ retentionDays \in 1..MaxDays
  /\ oldDir \in [EntryNames -> {NoEntry} \cup Entries(RetentionMaxAge(retentionDays))]
  /\ san = NoCall

\* a probe while the stream stays offline
OfflineProbe == SchedProbe /\ schedPc' # "start"

SweepNext ==
  \/ SchedulerStart
  \/ SchedCleanupIfNeeded
  \/ SchedSweep
  \/ SchedSweepReturn
  \/ SchedSweepFailed
  \/ SchedIsRecording
  \/ OfflineProbe
  \/ SchedNothingToRecord
  \/ SchedTick
  \/ ClockTick

SweepSpec == SweepInit /\ [][SweepNext]_vars

\* ---- Scheduler, stop-channel variant (stopChan, stopOnce) ----
AltOther == <<tempDir, recDir, now, schedPc, schedCancelled, retentionDays, oldDir, sweep,
              probeAnswer, san, lastCleanup, stopWaiting, stopReturned, mainPc>>

AltRecorder == <<isRecording, cancelFunc, tasks, nextTask, lastStart>>

\* Start: s.parentContext = ctx; s.wg.Add(1); go s.run()
AltStart ==
  /\ alt.runPc = "new"
  /\ alt' = [alt EXCEPT !.runPc = "check", !.wg = @ + 1]
  /\ UNCHANGED <<AltRecorder, lifeCancelled, AltOther>>

\* what IsLive() can return; a live probe is followed by the launch of a task
AltProbeResults == {"err", "offline"} \cup (IF nextTask < MaxTasks THEN {"live"} ELSE {})

\* checkAndRecord, at the top of the loop and after a tick
AltCheckAndRecord ==
  /\ alt.runPc \in {"check", "tickCheck"}
  /\ alt' = [alt EXCEPT !.runPc = IF @ = "check" THEN "select" ELSE "check"]
  /\ IF IsRecording
     THEN UNCHANGED AltRecorder
     ELSE \E r \in AltProbeResults :
            IF r = "live" THEN StartRecording("life") ELSE UNCHANGED AltRecorder
  /\ UNCHANGED <<lifeCancelled, AltOther>>

\* select: case <-ticker.C
AltSelectTicker ==
  /\ alt.runPc = "select"
  /\ alt' = [alt EXCEPT !.runPc = "tickCheck"]
  /\ UNCHANGED <<AltRecorder, lifeCancelled, AltOther>>

\* select: case <-s.stopChan: return, and the deferred s.wg.Done()
AltSelectStopChan ==
  /\ alt.runPc = "select"
  /\ alt.stopChan = "closed"
  /\ alt' = [alt EXCEPT !.runPc = "exited", !.wg = @ - 1]
  /\ UNCHANGED <<AltRecorder, lifeCancelled, AltOther>>

\* select: case <-s.parentContext.Done(): the loop calls s.Stop()
AltSelectParentDone ==
  /\ alt.runPc = "select"
  /\ lifeCancelled
  /\ alt' = [alt EXCEPT !.runPc = "stop"]
  /\ UNCHANGED <<AltRecorder, lifeCancelled, AltOther>>

\* Stop: s.stopOnce.Do(f). The first caller runs f: it closes stopChan and
\* goes to s.wg.Wait(); a caller that finds f running waits for it to
\* return; a caller that finds f done returns at once
AltStop(c) ==
  /\ alt.stops[c] = "idle"
  /\ c = RunCall => alt.runPc = "stop"
  /\ alt' = IF alt.once = "new"
            THEN [alt EXCEPT !.once = "running", !.stopChan = "closed",
                             !.stops[c] = "wgWait"]
            ELSE IF alt.once = "running"
            THEN [alt EXCEPT !.stops[c] = "onceWait"]
            ELSE [alt EXCEPT !.stops[c] = "returned"]
  /\ UNCHANGED <<AltRecorder, lifeCancelled, AltOther>>

\* s.wg.Wait() returns when the counter is zero; f and Stop return
AltWaitDone(c) ==
  /\ alt.stops[c] = "wgWait"
  /\ alt.wg = 0
  /\ alt' = [alt EXCEPT !.once = "done", !.stops[c] = "returned"]
  /\ UNCHANGED <<AltRecorder, lifeCancelled, AltOther>>

\* stopOnce.Do returns to a caller that waited for f
AltOnceDone(c) ==
  /\ alt.stops[c] = "onceWait"
  /\ alt.once = "done"
  /\ alt' = [alt EXCEPT !.stops[c] = "returned"]
  /\ UNCHANGED <<AltRecorder, lifeCancelled, AltOther>>

\* the loop returns after its call of Stop, and the deferred s.wg.Done()
AltRunReturn ==
  /\ alt.runPc = "stop"
  /\ alt.stops[RunCall] = "returned"
  /\ alt' = [alt EXCEPT !.runPc = "exited", !.wg = @ - 1]
  /\ UNCHANGED <<AltRecorder, lifeCancelled, AltOther>>

\* the steps of the run goroutine
AltRun ==
  \/ AltCheckAndRecord
  \/ AltSelectTicker
  \/ AltStop(RunCall)
  \/ AltRunReturn

AltNext ==
  \/ AltStart
  \/ AltCheckAndRecord
  \/ AltSelectTicker
  \/ AltSelectStopChan
  \/ AltSelectParentDone
  \/ \E c \in {RunCall} \cup StopCallers : AltStop(c) \/ AltWaitDone(c) \/ AltOnceDone(c)
  \/ AltRunReturn
  \/ \E t \in TaskIds : RecordStream(t)
  \/ CancelLifecycle

\* the variant with its goroutines scheduled: every step of the run loop
\* returns, a select with a ready stop or cancellation case takes it in the
\* end, and a call of Stop goes on when what it waits for has happened
AltFairSpec ==
  /\ Init
  /\ [][AltNext]_vars
  /\ WF_vars(AltRun)
  /\ SF_vars(AltSelectStopChan)
  /\ SF_vars(AltSelectParentDone)
  /\ \A c \in {RunCall} \cup StopCallers : WF_vars(AltWaitDone(c) \/ AltOnceDone(c))

\* the Recorder in the runs where no download and no publish fails: no step
\* of a recording ends in a download error, a failed close or a failed move
Failed(t) ==
  \/ tasks[t].dlErr = "other"
  \/ tasks[t].err \in {"other", "closeErr"}
  \/ tasks[t].moveErr

HappyStep(t) == RecordStream(t) /\ ~Failed(t)'

HappyNext ==
  \/ ClientStartRecording
  \/ ClientStopRecording
  \/ \E t \in TaskIds : HappyStep(t)
  \/ ClockTick
  \/ CancelLifecycle

HappySpec == Init /\ [][HappyNext]_vars

\* the sanitizer applied to every short name
SanInit ==
  /\ InitRecorder
  /\ retentionDays = 0
  /\ oldDir = NoEntries
  /\ san \in [pc : {"idle"}, input : Strings, arg : {<<>>}, cleaned : {<<>>},
               output : {<<>>}]

SanNext ==
  \/ SanitizeFilename
  \/ GenerateFinalPath

SanSpec == SanInit /\ [][SanNext]_vars

\* the program: run() starts the Scheduler, waits for the signal and shuts down
MainNext ==
  \/ MainStart
  \/ MainHttpStart
  \/ MainStop
  \/ MainStopReturn
  \/ MainStopRecording
  \/ MainExit
  \/ Loop
  \/ \E t \in TaskIds : RecordStream(t)
  \/ ClockTick
  \/ CancelLifecycle

MainSpec == SchedInit /\ [][MainNext]_vars

\* the Recorder with wall-clock time left out; the goroutine scheduler runs
\* every recording goroutine that can take a step
FairNext ==
  \/ ClientStartRecording
  \/ ClientStopRecording
  \/ \E t \in TaskIds : RecordStream(t)
  \/ CancelLifecycle

FairSpec == Init /\ [][FairNext]_vars /\ \A t \in TaskIds : WF_vars(RecordStream(t))

\* the steps of a recording that return whatever the stream does: the file
\* operations and the deferred functions
LocalStep(t) ==
  \/ CreateTemp(t)
  \/ CloseTemp(t)
  \/ Rename(t)
  \/ CopyOpen(t)
  \/ CopyData(t)
  \/ Release(t)
  \/ Cleanup(t)

\* client.Do and io.Copy return once the request context is cancelled
Unwind(t) ==
  /\ CtxDone(t)
  /\ \/ Connect(t)
     \/ CopyStream(t) /\ tasks'[t].pc = "close"

\* the Recorder with a stream that may never connect and never end: only the
\* local steps and the return of cancelled network calls are sure to happen
CancelFairSpec ==
  /\ Init
  /\ [][FairNext]_vars
  /\ \A t \in TaskIds : WF_vars(LocalStep(t) \/ Unwind(t))

\* ---- properties ----
\* the entries the sweep in progress found in the directory
Listed == {e \in EntryNames : sweep.entries[e] # NoEntry}

\* the entries the sweep in progress has removed
Deleted == {e \in Listed : oldDir[e] = NoEntry}

BodyPcs == {"create", "connect", "copy", "close", "rename", "copyOpen", "copyData"}

\* the tasks that were launched and have not yet flipped the slot back
Holders == {t \in TaskIds : tasks[t].pc \in BodyPcs \cup {"release"}}

\* the body of recordStream has returned, the deferred function is about to run
Returned(t) == tasks[t].pc = "release"

\* after the deferred cleanup the temp file of t is still on disk / is not
TempKeptAfter(t) == t \in tempDir /\ KeepTemp(tasks[t].tempFilePath, tasks[t].moveErr)
TempGoneAfter(t) == ~TempKeptAfter(t)

\* the deferred cleanup removes the temp file exactly when KeepTemp says no
CleanupEffect ==
  \A t \in TaskIds :
    (tasks[t].pc = "cleanup" /\ tasks'[t].pc = "done")
      => /\ (t \in tempDir') = (t \in tempDir /\ KeepTemp(tasks[t].tempFilePath, tasks[t].moveErr))
         /\ recDir' = recDir

\* C1: a StartRecording call launches a task only from an idle slot that no
\* launched task still holds; while the slot is active every call returns the
\* already-recording error and launches nothing; so at most one task holds the
\* slot between two releases.
C1_AtMostOneStart ==
  /\ [](Cardinality(Holders) <= 1 /\ (isRecording <=> Holders # {}))
  /\ [][/\ (nextTask' # nextTask => ~isRecording /\ Holders = {} /\ lastStart' = "ok")
        /\ (isRecording /\ <<nextTask, lastStart>>' # <<nextTask, lastStart>>
              => nextTask' = nextTask /\ lastStart' = "already")]_vars

\* a second task is launched after the first one has released the slot
C1_Witness ==
  /\ nextTask = 2
  /\ tasks[1].pc \in {"cleanup", "done"}
  /\ tasks[2].pc \in BodyPcs
  /\ lastStart = "already"

\* C4: the stored cancellation handle is non-nil iff the slot flag is set.
C4_CancelIffActive == (cancelFunc # Nil) <=> isRecording

C4_Witness ==
  /\ ~isRecording
  /\ cancelFunc = Nil
  /\ \E t \in TaskIds : tasks[t].pc = "cleanup"

\* C2: no path of the recordings directory ever holds a strict prefix of a
\* recording (a file is absent or whole, in every state of the publish step).
C2_NoPartialFile == \A p \in Paths : recDir[p] \in {NoFile, 0}

\* C3: every launched task eventually flips the slot back to idle, whatever
\* path it leaves by, so an active slot always becomes idle again.
C3_SlotAlwaysReleased ==
  /\ \A t \in TaskIds : (t \in Holders) ~> (t \notin Holders)
  /\ isRecording ~> ~isRecording

\* two recordings in a row have both returned and the slot is idle
C3_Witness ==
  /\ nextTask = 2
  /\ tasks[1].pc = "done"
  /\ tasks[2].pc = "cleanup"
  /\ ~isRecording

\* C5: the step of Scheduler.Stop that cancels the loop context leaves the
\* context of every recording in progress as it was.
C5_StopKeepsRecording ==
  [][(~schedCancelled /\ schedCancelled')
       => \A t \in Holders : CtxDone(t)' = CtxDone(t)]_vars

C10_MoveFailureKeepsTemp ==
  /\ [](\A t \in TaskIds :
          (Returned(t) /\ tasks[t].moveTried /\ tasks[t].moveErr)
            => TempKeptAfter(t) /\ ENABLED Release(t))
  /\ [][(\A t \in TaskIds :
           (Returned(t) /\ tasks'[t].pc # "release")
             => tasks'[t].pc = "cleanup" /\ ~isRecording' /\ cancelFunc' = Nil
                /\ tasks'[t].moveErr = tasks[t].moveErr)
        /\ CleanupEffect]_vars

\* a task has ended after a failed move: partial copy at the final path, temp
\* file still there, slot idle
C10_Witness ==
  \E t \in TaskIds, p \in Paths :
    /\ tasks[t].pc = "done" /\ t \in tempDir
    /\ recDir[p] > 0
    /\ ~isRecording

\* C11: a download ended by a normal disconnect is handled exactly like one
\* that ended cleanly with the same number of units: downloadStream reports no
\* error, so the task publishes when units were written and discards when
\* none were, and the download is never classified as failed.
C11_DisconnectLikeCleanEnd ==
  \A t \in TaskIds, d \in {"eof", "disconnect"} :
    (tasks[t].dlErr = d /\ tasks[t].pc \in {"rename", "copyOpen", "copyData", "release"})
      => /\ tasks[t].err \in {"nil", "closeErr"}
         /\ tasks[t].err = "nil" =>
              IF tasks[t].bytesWritten > 0
              THEN tasks[t].pc = "rename" \/ tasks[t].moveTried
              ELSE Returned(t) /\ ~tasks[t].moveTried /\ ~tasks[t].moveErr /\ TempGoneAfter(t)

\* the peer cut the transfer after some units and the recording is published
C11_Witness ==
  \E t \in TaskIds :
    /\ Returned(t) /\ tasks[t].dlErr = "disconnect" /\ tasks[t].bytesWritten > 0
    /\ tasks[t].moveTried /\ ~tasks[t].moveErr /\ recDir[FinalPath(t)] = 0

\* C12 as stated: however often StopRecording is called while one recording is
\* active, the cancel function of that recording is invoked at most once.
C12_Original == \A t \in TaskIds : tasks[t].cancelCalls <= 1

\* C12 amended: the cancel function is invoked only while its recording holds
\* the slot, once per StopRecording call; the invocation leaves the context
\* cancelled and changes nothing else, and once the context is cancelled a
\* further invocation has no effect at all.
C12_StopIdempotent ==
  /\ [](\A t \in TaskIds : tasks[t].cancelCalls > 0 => CtxDone(t) /\ t \in Holders)
  /\ [][\A t \in TaskIds :
          tasks'[t].cancelCalls > tasks[t].cancelCalls
            => /\ isRecording /\ cancelFunc = t /\ t \in Holders
               /\ tasks' = [tasks EXCEPT ![t].cancelCalls = @ + 1]
               /\ CtxDone(t)'
               /\ UNCHANGED <<isRecording, cancelFunc, nextTask, tempDir, recDir, lastStart>>]_vars

\* StopRecording was called twice during one download
C12_Witness ==
  \E t \in TaskIds :
    /\ isRecording /\ cancelFunc = t
    /\ tasks[t].cancelCalls = 2 /\ tasks[t].pc = "copy" /\ tasks[t].bytesWritten > 0

\* C13: a StartRecording call made while a recording is active returns the
\* already-recording error and changes nothing else: slot flag, stored cancel
\* function, the tasks (none launched, the running one neither cancelled nor
\* moved) and both directories stay as they were.
C13_RefusedStartChangesNothing ==
  [][(isRecording /\ lastStart' # lastStart)
       => /\ lastStart' = "already"
          /\ UNCHANGED <<isRecording, cancelFunc, tasks, nextTask, tempDir, recDir>>
          /\ \A t \in Holders : CtxDone(t)' = CtxDone(t)]_vars

\* a call was refused during a download that goes on undisturbed
C13_Witness ==
  \E t \in TaskIds :
    /\ lastStart = "already" /\ nextTask = 1
    /\ isRecording /\ cancelFunc = t
    /\ tasks[t].pc = "copy" /\ tasks[t].bytesWritten > 0 /\ ~CtxDone(t)

\* C14: during shutdown the context of a recording in progress is cancelled
\* only after Scheduler.Stop has returned (the poll loop has exited), and no
\* recording is launched once a cancellation of the shutdown has happened.
C14_CancelAfterLoopStopped ==
  /\ [](mainPc # "failed" =>
          \A t \in Holders :
            CtxDone(t) => schedPc = "exited" /\ mainPc \in {"stopRec", "httpStop", "exited"})
  /\ [][(mainPc # "failed" /\ nextTask' # nextTask)
          => ~lifeCancelled /\ ~schedCancelled]_vars

\* C15: the process ends only when no recording task is still running, so
\* its end cuts no recording task short; run()
\* has no timed wait for the recording task, so there is no grace period that
\* could have elapsed instead.
C15_ExitAfterFinalization ==
  mainPc = "exited" => \A t \in TaskIds : tasks[t].pc # "killed"

\* C16: once a call of Scheduler.Stop has returned the loop task has exited
\* for good: it can take no further step, so it makes no further call of the
\* probe, of StartRecording or of CleanOldRecordings.
C16_StopReturnsAfterLoopExit ==
  stopReturned > 0 => schedPc = "exited" /\ ~ENABLED Loop

\* Stop has returned after the loop had swept and started a recording
C16_Witness ==
  /\ stopReturned > 0 /\ schedPc = "exited"
  /\ nextTask = 1 /\ lastCleanup # ZeroTime

C18_StopReturns ==
  \A n \in 1..MaxStopCalls :
    (stopWaiting + stopReturned >= n) ~> (stopReturned >= n)

\* every call of Stop has returned and the lifecycle context is still live
C18_Witness ==
  /\ stopReturned = MaxStopCalls /\ stopWaiting = 0
  /\ ~lifeCancelled /\ nextTask = 1

\* C19: with retention enabled, a retention check made less than an hour
\* after the last sweep calls CleanOldRecordings not at all and leaves
\* lastCleanup as it was; a check made an hour or more after it (or before
\* any sweep) sets lastCleanup to the current time and calls
\* CleanOldRecordings once; nothing else calls it or changes lastCleanup.
C19_SweepThrottled ==
  [][/\ (schedPc = "cleanup" /\ schedPc' # "cleanup" /\ retentionDays > 0)
          => IF now - lastCleanup < Hour
             THEN schedPc' = "isrec" /\ lastCleanup' = lastCleanup
             ELSE schedPc' = "sweep" /\ lastCleanup' = now
     /\ (schedPc # "cleanup" /\ schedPc' # schedPc) => schedPc' # "sweep"
     /\ (schedPc # "cleanup") => lastCleanup' = lastCleanup]_vars

\* a second sweep: a recording was started after the first one
C19_Witness ==
  /\ retentionDays > 0 /\ schedPc = "sweep"
  /\ lastCleanup = now /\ now >= Hour /\ nextTask = 1

\* C20: with retention disabled (retentionDays <= 0, so a maximum age of 0)
\* the scheduler never calls CleanOldRecordings and never sets lastCleanup.
C20_DisabledNeverSweeps ==
  retentionDays <= 0
    => /\ RetentionMaxAge(retentionDays) = 0
       /\ schedPc # "sweep"
       /\ lastCleanup = ZeroTime

\* the loop has run for a while with a negative retention setting
C20_Witness ==
  /\ retentionDays < 0 /\ schedPc = "wait"
  /\ now = MaxTime /\ nextTask = 1

\* C21: when the IsRecording check of a tick finds a recording active, the
\* tick ends there: the loop goes to wait for the next tick without launching
\* a task or calling StartRecording; the probe is reached only from a check
\* that found the recorder idle, StartRecording only from a probe.
C21_BusyTickStartsNothing ==
  [][/\ (schedPc = "isrec" /\ IsRecording /\ schedPc' # schedPc)
          => (schedPc' = "wait" /\ UNCHANGED <<nextTask, lastStart, isRecording, cancelFunc>>)
     /\ (schedPc' = "probe" /\ schedPc # "probe")
          => (schedPc = "isrec" /\ ~IsRecording)
     /\ (schedPc' = "start" /\ schedPc # "start") => schedPc = "probe"]_vars

\* a tick with a sweep has ended while the recording launched by an earlier
\* tick was still being downloaded
C21_Witness ==
  /\ schedPc = "wait" /\ isRecording /\ lastCleanup > 0
  /\ \E t \in TaskIds : tasks[t].pc = "copy" /\ tasks[t].startTime = 0

\* C22: a probe starts nothing by itself; a probe that finds the stream live
\* is followed by one call of StartRecording, which on an idle recorder
\* launches one task and takes the slot, and then the tick is over; a probe
\* that finds the stream offline ends the tick with no call; tasks are
\* launched by no other step; and a slot taken by a successful start is free
\* again once the stream has ended.
C22_LiveStartsOnce ==
  /\ [][/\ (schedPc = "probe" /\ schedPc' # schedPc)
            => /\ schedPc' \in {"start", "notlive", "probeErr"}
               /\ UNCHANGED <<nextTask, isRecording, cancelFunc, lastStart>>
        /\ (schedPc = "start" /\ (schedPc' # schedPc \/ nextTask' # nextTask))
            => /\ schedPc' \in {"wait", "startErr"}
               /\ ~isRecording => /\ isRecording' /\ lastStart' = "ok"
                                  /\ nextTask' = nextTask + 1
                                  /\ schedPc' = "wait"
        /\ (schedPc = "notlive" /\ schedPc' # schedPc)
            => /\ schedPc' = "wait"
               /\ UNCHANGED <<nextTask, isRecording, cancelFunc, lastStart>>
        /\ nextTask' # nextTask => schedPc = "start"]_vars
  /\ (lastStart = "ok" /\ isRecording) ~> ~isRecording

\* the recording that a live probe started has ended and left the slot idle
C22_Witness ==
  /\ lastStart = "ok" /\ ~isRecording /\ schedPc = "wait"
  /\ \E t \in TaskIds : tasks[t].pc = "done"

\* C23: after a probe that returned an error, and after a StartRecording that
\* was refused because a recording is active, the tick ends without a task
\* launched and without a change of the recorder; the loop is not left (it
\* exits only from its wait and only when its context is cancelled) and in
\* its wait the next tick can always begin.
C23_FailedTickKeepsLoop ==
  /\ [][/\ (schedPc \in {"probeErr", "startErr"} /\ schedPc' # schedPc)
            => /\ schedPc' = "wait"
               /\ UNCHANGED <<nextTask, isRecording, cancelFunc, tasks>>
        /\ (schedPc = "start" /\ schedPc' # schedPc /\ isRecording)
            => /\ schedPc' = "startErr" /\ lastStart' = "already"
               /\ UNCHANGED <<nextTask, isRecording, cancelFunc, tasks>>
        /\ (schedPc' = "exited" /\ schedPc # "exited")
            => (schedPc = "wait" /\ SchedCtxDone)]_vars
  /\ [](schedPc = "wait" => ENABLED SchedTick)

\* the loop has been refused by StartRecording: another caller took the slot
\* between the check of the tick and its start
C23_Witness == schedPc = "startErr" /\ lastStart = "already" /\ isRecording

\* C24: the started loop goes to its retention check first, and waits only
\* after a liveness check; every tick out of the wait begins with the
\* retention check; the liveness check is entered only from the retention
\* check (skipped, swept, or sweep failed); with retention enabled the first
\* retention check sweeps, and each sweep uses the cutoff
\* now - retentionDays * 24 hours.
C24_RetentionThenLiveness ==
  [][/\ (schedPc = "new" /\ schedPc' # schedPc) => schedPc' = "cleanup"
     /\ (schedPc = "wait" /\ schedPc' # schedPc) => schedPc' \in {"cleanup", "exited"}
     /\ (schedPc' = "isrec" /\ schedPc # "isrec")
          => schedPc \in {"cleanup", "sweep", "sweepErr"}
     /\ (schedPc' = "wait" /\ schedPc # "wait")
          => schedPc \in {"isrec", "notlive", "probeErr", "start", "startErr"}
     /\ (schedPc = "cleanup" /\ schedPc' # schedPc /\ retentionDays > 0
          /\ lastCleanup = ZeroTime)
          => schedPc' = "sweep"
     /\ (sweep.pc = "idle" /\ sweep'.pc = "loop")
          => sweep'.cutoff = now - retentionDays * 24 * Hour]_vars

\* the first retention check has swept and the first liveness check is at its
\* probe, before any wait
C24_Witness ==
  /\ schedPc = "probe" /\ retentionDays > 0 /\ lastCleanup = 0 /\ now = 0
  /\ sweep = IdleSweep /\ nextTask = 0

\* C25 as stated: when CleanOldRecordings returns without error, the entries
\* it deleted are exactly the regular files named *.mp3 with a modification
\* time before now - maxAge, and it returns their number.
C25_Original ==
  (sweep.pc = "returned" /\ ~sweep.err)
    => /\ Deleted = {e \in Listed : /\ sweep.entries[e].kind = "file"
                                     /\ sweep.entries[e].ext = ".mp3"
                                     /\ sweep.entries[e].modTime < sweep.cutoff}
       /\ sweep.deleted = Cardinality(Deleted)

\* C25: at every point of a sweep the deleted entries are entries that are
\* not directories, whose name ends in .mp3 in any letter case, and whose
\* modification time is strictly before now - maxAge; the count equals the
\* number of deleted entries; and when the sweep returns without error every
\* such entry is deleted unless its stat or its removal failed and was logged.
C25_SweepDeletesOldMp3 ==
  LET Candidates == {e \in Listed : /\ sweep.entries[e].kind \in {"file", "other"}
                                    /\ sweep.entries[e].ext \in {".mp3", ".MP3"}
                                    /\ sweep.entries[e].modTime < sweep.cutoff}
  IN sweep.pc \in {"loop", "returned"}
       => /\ Deleted \subseteq Candidates
          /\ Deleted \cap sweep.warned = {}
          /\ sweep.deleted = Cardinality(Deleted)
          /\ (sweep.pc = "returned" /\ ~sweep.err)
               => Candidates \ Deleted \subseteq sweep.warned

\* a sweep has returned after deleting an old file named in upper case and
\* keeping a file modified exactly at the cutoff
C25_Witness ==
  /\ sweep.pc = "returned" /\ ~sweep.err /\ sweep.deleted = 1
  /\ \E e \in Deleted : sweep.entries[e].ext = ".MP3"
  /\ \E e \in Listed \ Deleted :
       /\ oldDir[e].kind = "file" /\ oldDir[e].ext = ".mp3"
       /\ oldDir[e].modTime = sweep.cutoff /\ e \notin sweep.warned

\* C26: a sweep whose directory read fails returns at once with the error and
\* the count 0 and removes no entry; the loop takes the error to its log
\* step and from there goes on to the liveness check of the same tick, with
\* the directory as it was and no sweep left in progress.
C26_UnreadableDirectory ==
  [][/\ sweep'.err
          => /\ sweep'.pc = "returned" /\ sweep'.deleted = 0
             /\ oldDir' = oldDir /\ recDir' = recDir
     /\ (schedPc = "sweep" /\ sweep.err /\ schedPc' # schedPc)
          => (schedPc' = "sweepErr" /\ oldDir' = oldDir /\ sweep' = IdleSweep)
     /\ (schedPc = "sweepErr" /\ schedPc' # schedPc)
          => (schedPc' = "isrec" /\ oldDir' = oldDir /\ sweep' = IdleSweep)]_vars

\* the loop has taken the error of a sweep, and the files old enough to be
\* deleted are still in the directory
C26_Witness ==
  /\ schedPc = "sweepErr" /\ lastCleanup = now /\ sweep = IdleSweep
  /\ \A e \in EntryNames :
       /\ oldDir[e].kind = "file" /\ oldDir[e].ext = ".mp3"
       /\ oldDir[e].modTime < 0 - RetentionMaxAge(retentionDays)

\* C27: a recording whose own cancel function has been invoked (StopRecording)
\* and a recording whose caller's lifecycle context has been cancelled both
\* leave the download, wherever it stands, and go through finalization to the
\* release of the slot, even if the stream itself would never end.
C27_EitherCancelStops ==
  \A t \in TaskIds :
    (/\ t \in Holders
     /\ \/ tasks[t].cancelCalls > 0
        \/ tasks[t].parent = "life" /\ lifeCancelled)
      ~> (t \notin Holders)

\* a recording cancelled through the lifecycle context only, during its copy,
\* has left the download and is at the release of the slot
C27_Witness ==
  /\ lifeCancelled
  /\ \E t \in TaskIds :
       /\ tasks[t].pc = "release" /\ tasks[t].err = "canceled"
       /\ tasks[t].cancelCalls = 0 /\ tasks[t].bytesWritten > 0

\* fails under CancelFairSpec: without a cancellation a download may go on
\* for ever
EveryDownloadEnds == \A t \in TaskIds : (t \in Holders) ~> (t \notin Holders)

C29_PollingGoesOn ==
  /\ (isRecording /\ schedPc \in {"cleanup", "sweep", "sweepErr", "isrec"})
       ~> (schedPc = "wait")
  /\ (isRecording /\ schedPc = "wait") ~> (schedPc \in {"cleanup", "exited"})
  /\ (isRecording /\ schedPc = "cleanup" /\ now - lastCleanup >= Hour)
       ~> (schedPc = "sweep")

\* a tick has swept and ended while the recording started an hour earlier
\* still waits for its connection
C29_Witness ==
  /\ schedPc = "wait" /\ isRecording /\ now > 0 /\ lastCleanup = now
  /\ \E t \in TaskIds : tasks[t].pc \in {"create", "connect"} /\ ~CtxDone(t)

\* C30: a publish by rename that succeeds lands on a path where no complete
\* recording of an earlier task lies.
C30_PublishNeverOverwrites ==
  [][\A t \in TaskIds :
       (tasks[t].pc = "rename" /\ tasks'[t].pc = "release")
         => recDir[FinalPath(t)] # 0]_vars

\* C31: the probe reports a live stream exactly when the request was answered
\* with status 200; it reports "not live" without an error when the
\* connection failed or the answer had any other status; and it returns an
\* error exactly when the request could not be constructed.
C31_LiveOnlyOn200 ==
  probeAnswer # NoAnswer
    => /\ schedPc = "start"
            <=> (probeAnswer.kind = "response" /\ probeAnswer.status = 200)
       /\ schedPc = "notlive"
            <=> \/ probeAnswer.kind = "connErr"
                \/ probeAnswer.kind = "response" /\ probeAnswer.status # 200
       /\ schedPc = "probeErr" <=> probeAnswer.kind = "badRequest"

\* a probe answered with 204 has reported the stream as not live
C31_Witness ==
  schedPc = "notlive" /\ probeAnswer.kind = "response" /\ probeAnswer.status = 204

\* C32: the result of sanitizeFilename contains none of the characters
\* space / \ : * ? " < > | and neither begins nor ends with an underscore, a
\* hyphen, a dot or a space.
C32_SanitizedIsClean ==
  san.pc # "idle"
    => /\ \A i \in 1..Len(san.output) : san.output[i] \notin Unsafe
       /\ san.output # <<>>
            => /\ san.output[1] \notin {"_", "-", ".", " "}
               /\ san.output[Len(san.output)] \notin {"_", "-", ".", " "}

\* the name "/a:" has been sanitized to "a"
C32_Witness ==
  san.pc = "done" /\ san.arg = <<"/", "a", ":">> /\ san.output = <<"a">>

\* C33 as stated: in the name made by generateFinalPath, before trimming,
\* each unsafe character has become an underscore or a hyphen and every other
\* character is unchanged.
C33_Original ==
  san.pc = "path"
    => /\ Len(san.cleaned) = Len(san.arg)
       /\ \A i \in 1..Len(san.arg) :
            IF san.arg[i] \in Unsafe
            THEN san.cleaned[i] \in {"_", "-"}
            ELSE san.cleaned[i] = san.arg[i]

\* C33: in the name made by generateFinalPath, before trimming, each space
\* has become an underscore, each double quote an apostrophe, each other
\* unsafe character a hyphen, and every other character is unchanged; the
\* final name is that string without its leading and trailing separators.
C33_UnsafeReplaced ==
  san.pc = "path"
    => /\ Len(san.cleaned) = Len(san.arg)
       /\ \A i \in 1..Len(san.arg) :
            san.cleaned[i] = IF san.arg[i] = " " THEN "_"
                             ELSE IF san.arg[i] = "\"" THEN "'"
                             ELSE IF san.arg[i] \in Unsafe THEN "-"
                             ELSE san.arg[i]
       /\ \E a \in 1..(Len(san.cleaned) + 1) : \E b \in 0..Len(san.cleaned) :
            /\ san.output = SubSeq(san.cleaned, a, b)
            /\ \A i \in 1..Len(san.cleaned) :
                 (i < a \/ i > b) => san.cleaned[i] \in {"_", "-", ".", " "}

\* the final name of a stream called: a, double quote, space
C33_Witness ==
  /\ san.pc = "path" /\ san.input = <<"a", "\"", " ">>
  /\ san.output = <<"a", "'", "_", "_", "a", "_", "a", ".", "a">>

\* C34: no call of CleanOldRecordings is between its directory read and its
\* return while a recording task is in its move to the final location
\* (rename or fallback copy).
C34_NoSweepDuringPublish ==
  ~(/\ sweep.pc = "loop"
    /\ \E t \in TaskIds : tasks[t].pc \in {"rename", "copyOpen", "copyData"})

\* C35: the time of the last sweep is set when the sweep is called and is
\* changed by nothing else, whatever the sweep returns; so every call of the
\* sweep, also the one after a failed sweep, comes an hour or more after the
\* call before it.
C35_StampedOnEveryAttempt ==
  [][/\ (schedPc' = "sweep" /\ schedPc # "sweep")
          => (now - lastCleanup >= Hour /\ lastCleanup' = now)
     /\ lastCleanup' # lastCleanup => (schedPc = "cleanup" /\ schedPc' = "sweep")]_vars

\* the second sweep of a run, an hour after the first, has failed
C35_Witness == schedPc = "sweepErr" /\ lastCleanup = MaxTime /\ now = MaxTime

C37_LoopNeverRefused ==
  /\ schedPc # "startErr"
  /\ lastStart # "already"
  /\ schedPc \in {"probe", "start"} => ~isRecording

\* the loop has started a second recording after the first one ended
C37_Witness ==
  /\ schedPc = "wait" /\ lastStart = "ok" /\ isRecording
  /\ tasks[1].pc = "done" /\ tasks[2].pc = "copy"

\* C38: while IsRecording returns false no recording task is in the body of
\* recordStream, neither before nor inside its move to the final location;
\* every change of the recordings directory is made by a task inside that
\* move, with the slot taken before and after the step.
C38_ReleaseAfterPublish ==
  /\ [](~IsRecording => \A t \in TaskIds : tasks[t].pc \notin BodyPcs)
  /\ [][recDir' # recDir
          => /\ isRecording /\ isRecording'
             /\ \E t \in TaskIds : tasks[t].pc \in {"rename", "copyOpen", "copyData"}]_vars

\* the slot is idle again after a recording was published by the fallback
\* copy, and the task has not yet returned
C38_Witness ==
  /\ ~isRecording /\ tasks[1].pc = "cleanup" /\ 1 \in tempDir
  /\ \E p \in Paths : recDir[p] = 0

\* C39: an iteration of the sweep that fails to stat or to delete its file
\* goes on with the loop, sets no error, removes nothing and counts nothing;
\* the loop returns only when no entry is left to examine, then without an
\* error; the count goes up by one exactly at the removal of one file.
C39_FailedFileSkipped ==
  [][/\ (sweep.pc = "loop" /\ sweep'.warned # sweep.warned)
          => /\ sweep'.pc = "loop" /\ ~sweep'.err
             /\ sweep'.deleted = sweep.deleted /\ oldDir' = oldDir
             /\ Cardinality(sweep'.todo) = Cardinality(sweep.todo) - 1
     /\ (sweep.pc = "loop" /\ sweep'.pc = "returned")
          => /\ sweep.todo = {} /\ ~sweep'.err
             /\ sweep'.deleted = Cardinality({e \in EntryNames :
                                    sweep.entries[e] # NoEntry /\ oldDir[e] = NoEntry})
     /\ (sweep.pc = "loop" /\ sweep'.pc = "loop")
          => sweep'.deleted - sweep.deleted
               = Cardinality({e \in EntryNames : oldDir[e] # NoEntry /\ oldDir'[e] = NoEntry})]_vars

\* a sweep has returned without error after a failure at its first file and
\* the removal of its second
C39_Witness ==
  /\ sweep.pc = "returned" /\ ~sweep.err /\ sweep.deleted = 1
  /\ 1 \in sweep.warned /\ oldDir[1] # NoEntry /\ 2 \in Deleted

\* C40: in the stop-channel variant, once the parent context of a started
\* scheduler is cancelled the run loop terminates, and every call of Stop
\* that has been made returns.
C40_CancelEndsLoop ==
  /\ (lifeCancelled /\ alt.runPc # "new") ~> (alt.runPc = "exited")
  /\ \A c \in StopCallers :
       (lifeCancelled /\ alt.runPc # "new" /\ alt.stops[c] # "idle")
         ~> (alt.stops[c] = "returned")
====
